---- MODULE Spec2Model ----
(***************************************************************************)
(* A model of the growable bump-pointer arena allocator ArenaAllocator     *)
(* (arenaAllocator.hpp), its MemoryBlock (memoryBlock.hpp) and the         *)
(* alignment helpers (alignment.hpp).                                      *)
(*                                                                         *)
(* Addresses and sizes are unsigned machine words: every size_t /          *)
(* uintptr_t operation of the source is taken modulo Word.  The system     *)
(* allocator (::operator new) is a nondeterministic choice of a free,      *)
(* NewAlign-aligned region of the heap, or a failure (std::bad_alloc).     *)
(***************************************************************************)
EXTENDS Integers, Sequences, FiniteSets

\* ------------------------------------------------------------------ sizes

\* Width, in bits, of size_t and uintptr_t in the model.
WordBits == 5

\* The template parameter DefaultBlockSize of ArenaAllocator.
DefaultBlockSize == 2

\* The alignment ::operator new guarantees for the storage it returns.
NewAlign == 2

\* The heap the system allocator serves blocks from is [NewAlign, HeapTop).
HeapTop == 8

\* The largest size a caller asks for.
MaxSize == 3

\* The most rounds a benchmark loop of same-sized allocations makes.
MaxBatch == 4

\* The most addresses a caller takes between two resets.
MaxRegions == 3

RECURSIVE Pow2(_)
Pow2(n) == IF n = 0 THEN 1 ELSE 2 * Pow2(n - 1)

Word == Pow2(WordBits)

\* The alignment arguments callers pass: powers of two and others.
Alignments == {0, 1, 2, 3, 4, 6}

NULL == 0

\* The answer of ::operator new that stands for std::bad_alloc.
OOM == 0

\* ------------------------------------------------------ unsigned arithmetic

Add(x, y) == (x + y) % Word

Sub(x, y) == (x + Word - y) % Word

RECURSIVE BitAnd(_, _)
BitAnd(x, y) ==
    IF x = 0 \/ y = 0 THEN 0
    ELSE (x % 2) * (y % 2) + 2 * BitAnd(x \div 2, y \div 2)

BitNot(x) == Word - 1 - x

Max(x, y) == IF x < y THEN y ELSE x

\* ------------------------------------------------------------ alignment.hpp

align_up(ptr, alignment) ==
    BitAnd(Sub(Add(ptr, alignment), 1), BitNot(Sub(alignment, 1)))

\* ---------------------------------------------------------- memoryBlock.hpp

\* MemoryBlock(block_size), with data the storage ::operator new returned.
MemoryBlock(block_size, base) ==
    [data |-> base, size |-> block_size, used |-> 0, next |-> NULL]

\* MemoryBlock::current()
current(block) == Add(block.data, block.used)

\* MemoryBlock::available()
available(block) == Sub(block.size, block.used)

\* ------------------------------------------------------------------ state

VARIABLES
    arena,        \* the ArenaAllocator object: head, current and the counters
    blocks,       \* the heap: the MemoryBlocks that are allocated and not deleted
    last,         \* the last operation called, how it ended, block_count() before it
    batch,        \* a benchmark loop: how many allocations of which size it has made
    other,        \* a second ArenaAllocator object, the partner of arena in a move
    regions,      \* the regions allocate has returned since the last reset or release
    query         \* a call of the alignment helpers: its arguments and its answers

vars == <<arena, blocks, last, batch, other, regions, query>>

\* ArenaAllocator(): the state after construction.
ArenaAllocator ==
    [head |-> NULL, current |-> NULL, totalAllocated |-> 0, totalUsed |-> 0,
     blockCount |-> 0]

\* The program state the operations work on: the arena a and the heap h.
St(a, h) == [a |-> a, h |-> h]

\* ------------------------------------------------------- the system allocator

\* A MemoryBlock is known by the address of its storage. The heap maps the
\* blocks that are allocated to their fields; a deleted block is no longer in it.
Overlap(lo1, n1, lo2, n2) == lo1 < lo2 + n2 /\ lo2 < lo1 + n1

\* ::operator new(n): the storage may start at any NewAlign-aligned address whose
\* n bytes are free, or the call throws std::bad_alloc (OOM): always when no
\* region is left, and whenever the system decides so.
operator_new(h, n) ==
    {OOM} \cup
    {base \in NewAlign..(HeapTop - 1) :
        /\ base % NewAlign = 0
        /\ base + n <= HeapTop
        /\ \A b \in DOMAIN h : ~Overlap(base, n, h[b].data, h[b].size)}

\* new MemoryBlock(block_size) in heap h, its storage at base.
New(h, block_size, base) ==
    [b \in DOMAIN h \cup {base} |->
        IF b = base THEN MemoryBlock(block_size, base) ELSE h[b]]

\* delete block: ~MemoryBlock() gives the storage back and the object is gone.
Delete(h, block) == [b \in DOMAIN h \ {block} |-> h[b]]

\* ------------------------------------------------------- arenaAllocator.hpp

\* release: while (head != nullptr) { next = head->next; delete head; head = next; }
RECURSIVE delete_chain(_, _)
delete_chain(h, block) ==
    IF block = NULL THEN h
    ELSE delete_chain(Delete(h, block), h[block].next)

\* A growth that gives the old chain back and keeps the new block alone.
add_block_replacing(s, block_size, base) ==
    LET a1 == [s.a EXCEPT !.blockCount = Add(@, 1),
                          !.totalAllocated = Add(@, block_size)]
    IN  St([a1 EXCEPT !.head = base, !.current = base],
           New(delete_chain(s.h, s.a.head), block_size, base))

\* add_block(block_size), the new MemoryBlock's storage being at base.
add_block(s, block_size, base) ==
    LET newBlock == base
        h1 == New(s.h, block_size, base)
        a1 == [s.a EXCEPT !.blockCount = Add(@, 1),
                          !.totalAllocated = Add(@, block_size)]
    IN  IF s.a.head = NULL
        THEN St([a1 EXCEPT !.head = newBlock, !.current = newBlock], h1)
        ELSE St([a1 EXCEPT !.current = newBlock],
                [h1 EXCEPT ![s.a.current].next = newBlock])

\* allocate without its test of size == 0.
ZeroSize_unchecked(size) == FALSE

\* allocate: if (size == 0) return nullptr;
ZeroSize(size) == size = 0

\* allocate: if ((alignment & (alignment - 1)) != 0) throw
BadAlignment(alignment) == BitAnd(alignment, Sub(alignment, 1)) # 0

\* allocate: size + (ptr_aligned - ptr_currentBlock)
adjusted(block, size, alignment) ==
    Sub(Add(size, align_up(current(block), alignment)), current(block))

\* allocate: if (current->used + adjusted > current->available())
NeedsBlock(block, adj) == Add(block.used, adj) > available(block)

\* allocate: current->used += adjusted; totalUsed += adjusted; return ptr_aligned
bump(s, size, alignment) ==
    LET cur == s.a.current
        adj == adjusted(s.h[cur], size, alignment)
    IN  [a |-> [s.a EXCEPT !.totalUsed = Add(@, adj)],
         h |-> [s.h EXCEPT ![cur].used = Add(@, adj)],
         outcome |-> "ok",
         ptr |-> align_up(current(s.h[cur]), alignment),
         blk |-> cur]

\* An allocate call that ends without an address: nullptr, or an exception.
Ends(s, outcome) ==
    [a |-> s.a, h |-> s.h, outcome |-> outcome, ptr |-> NULL, blk |-> NULL]

\* allocate: the first block of an empty arena is asked for.
AsksFirst(s, size, alignment) ==
    ~ZeroSize(size) /\ ~BadAlignment(alignment) /\ s.a.current = NULL

\* allocate: the state at line 69, r1 being the storage of the first block.
AfterFirst(s, size, alignment, r1) ==
    IF AsksFirst(s, size, alignment) /\ r1 # OOM
    THEN add_block(s, Max(alignment, DefaultBlockSize), r1)
    ELSE s

\* allocate: the growth block is asked for.
AsksSecond(s, size, alignment, r1) ==
    LET s1 == AfterFirst(s, size, alignment, r1)
    IN  /\ ~ZeroSize(size) /\ ~BadAlignment(alignment)
        /\ s1.a.current # NULL
        /\ NeedsBlock(s1.h[s1.a.current], adjusted(s1.h[s1.a.current], size, alignment))

\* allocate(size, alignment); r1 and r2 are what ::operator new answers to the
\* first and to the second add_block of the call.
allocate(s, size, alignment, r1, r2) ==
    IF ZeroSize(size) THEN Ends(s, "nullptr")
    ELSE IF BadAlignment(alignment) THEN Ends(s, "runtime_error")
    ELSE IF AsksFirst(s, size, alignment) /\ r1 = OOM THEN Ends(s, "bad_alloc")
    ELSE LET s1 == AfterFirst(s, size, alignment, r1)
         IN  IF AsksSecond(s, size, alignment, r1)
             THEN IF r2 = OOM THEN Ends(s1, "bad_alloc")
                  ELSE bump(add_block(s1, Max(size, DefaultBlockSize), r2),
                            size, alignment)
             ELSE bump(s1, size, alignment)

\* reset: while (block->next != nullptr) { block->used = 0; block = block->next; }
RECURSIVE reset_walk(_, _)
reset_walk(h, block) ==
    IF h[block].next = NULL THEN h
    ELSE reset_walk([h EXCEPT ![block].used = 0], h[block].next)

\* A reset that keeps the head block only and gives the others back.
reset_trimming(s) ==
    IF s.a.head = NULL THEN s
    ELSE St([s.a EXCEPT !.current = s.a.head, !.totalUsed = 0, !.blockCount = 1,
                        !.totalAllocated = s.h[s.a.head].size],
            [delete_chain(s.h, s.h[s.a.head].next) EXCEPT
                ![s.a.head].used = 0, ![s.a.head].next = NULL])

\* reset()
reset(s) ==
    IF s.a.head = NULL THEN s
    ELSE St([s.a EXCEPT !.current = s.a.head, !.totalUsed = 0],
            reset_walk(s.h, s.a.head))

\* A release that forgets to zero totalUsed.
release_keeping_used(s) ==
    St([s.a EXCEPT !.head = NULL, !.current = NULL, !.totalAllocated = 0,
                   !.blockCount = 0],
       delete_chain(s.h, s.a.head))

\* A release that walks the chain with a local pointer and leaves head as it was.
release_keeping_head(s) ==
    St([s.a EXCEPT !.current = NULL, !.totalAllocated = 0,
                   !.totalUsed = 0, !.blockCount = 0],
       delete_chain(s.h, s.a.head))

\* release(): the loop ends with head == nullptr; then current and the counters.
release(s) ==
    St([s.a EXCEPT !.head = NULL, !.current = NULL, !.totalAllocated = 0,
                   !.totalUsed = 0, !.blockCount = 0],
       delete_chain(s.h, s.a.head))

\* ----------------------------------------------------------------- actions

\* A call: the operation, how it ended, and block_count() as it began.
Call(op, outcome, before) == [op |-> op, outcome |-> outcome, before |-> before]

\* What ::operator new may answer to each add_block of allocate(size, alignment).
Answers1(s, size, alignment) ==
    IF AsksFirst(s, size, alignment)
    THEN operator_new(s.h, Max(alignment, DefaultBlockSize))
    ELSE {OOM}

Answers2(s, size, alignment, r1) ==
    IF AsksSecond(s, size, alignment, r1)
    THEN operator_new(AfterFirst(s, size, alignment, r1).h, Max(size, DefaultBlockSize))
    ELSE {OOM}

\* The loop of a benchmark scope: n same-sized allocations made so far on the
\* arena the scope constructed.
NoBatch == [n |-> 0, size |-> 0, alignment |-> 0]

\* No call of the alignment helpers has been made.
NoQuery == [ptr |-> NULL, alignment |-> 1, asked |-> {}, isAligned |-> FALSE, align_up |-> NULL]

Init ==
    /\ arena = ArenaAllocator
    /\ blocks = <<>>
    /\ last = Call("construct", "ok", 0)
    /\ batch = NoBatch
    /\ other = ArenaAllocator
    /\ regions = <<>>
    /\ query = NoQuery

\* allocate with alignment 0 passes the power-of-two test, takes nullptr for the
\* aligned address and subtracts the block's pointer from it: undefined.
Undefined(size, alignment) == ~ZeroSize(size) /\ alignment = 0

\* A run is followed up to its first undefined operation.
Defined == last.outcome # "undefined"

Allocate ==
    /\ Defined
    /\ \E size \in 0..MaxSize, alignment \in Alignments :
        \E r1 \in Answers1(St(arena, blocks), size, alignment) :
        \E r2 \in Answers2(St(arena, blocks), size, alignment, r1) :
          LET r == allocate(St(arena, blocks), size, alignment, r1, r2)
          IN  /\ arena' = r.a
              /\ blocks' = r.h
              /\ last' = Call("allocate", IF Undefined(size, alignment) /\ r.outcome = "ok"
                                            THEN "undefined" ELSE r.outcome,
                               arena.blockCount)
    /\ UNCHANGED <<batch, other, regions, query>>

Reset ==
    LET r == reset(St(arena, blocks))
    IN  /\ Defined
        /\ arena' = r.a
        /\ blocks' = r.h
        /\ last' = Call("reset", "ok", arena.blockCount)
        /\ UNCHANGED <<batch, other, regions, query>>

Release ==
    LET r == release(St(arena, blocks))
    IN  /\ Defined
        /\ arena' = r.a
        /\ blocks' = r.h
        /\ last' = Call("release", "ok", arena.blockCount)
        /\ UNCHANGED <<batch, other, regions, query>>

Next == Allocate \/ Reset \/ Release

Spec == Init /\ [][Next]_vars

\* ArenaAllocator(ArenaAllocator&& moved): the new object takes the five fields
\* of moved, then moved is emptied. The result is the pair of objects.
move_construct(moved) ==
    [this |-> [head |-> moved.head, current |-> moved.current,
               totalAllocated |-> moved.totalAllocated,
               totalUsed |-> moved.totalUsed, blockCount |-> moved.blockCount],
     moved |-> [moved EXCEPT !.head = NULL, !.current = NULL, !.totalAllocated = 0,
                             !.totalUsed = 0, !.blockCount = 0]]

\* A move assignment that takes the fields of moved without release() first.
move_assign_unreleased(this, moved, h, same) ==
    IF same THEN [this |-> this, moved |-> this, h |-> h]
    ELSE [this |-> [this EXCEPT !.head = moved.head, !.current = moved.current,
                                !.totalAllocated = moved.totalAllocated,
                                !.totalUsed = moved.totalUsed,
                                !.blockCount = moved.blockCount],
          moved |-> [moved EXCEPT !.head = NULL, !.current = NULL,
                                  !.totalAllocated = 0, !.totalUsed = 0,
                                  !.blockCount = 0],
          h |-> h]

\* operator=(ArenaAllocator&& moved) on the object this with heap h; same says
\* that this and moved are one object (this == &moved), and then nothing is done.
move_assign(this, moved, h, same) ==
    IF same THEN [this |-> this, moved |-> this, h |-> h]
    ELSE LET r == release(St(this, h))
         IN  [this |-> [r.a EXCEPT !.head = moved.head, !.current = moved.current,
                                   !.totalAllocated = moved.totalAllocated,
                                   !.totalUsed = moved.totalUsed,
                                   !.blockCount = moved.blockCount],
              moved |-> [moved EXCEPT !.head = NULL, !.current = NULL,
                                      !.totalAllocated = 0, !.totalUsed = 0,
                                      !.blockCount = 0],
              h |-> r.h]

\* The two objects by name, and the state with the object named x replaced.
Objects == {"arena", "other"}
Object(x) == IF x = "arena" THEN arena ELSE other

\* ArenaAllocator x(std::move(y)): x is a new object, built in the place of an
\* arena that was destroyed (the destructor leaves no block and zeroed fields).
MoveConstruct ==
    /\ Defined
    /\ \E x \in Objects, y \in Objects :
         LET r == move_construct(Object(y))
         IN  /\ x # y
             /\ Object(x) = ArenaAllocator
             /\ arena' = IF x = "arena" THEN r.this ELSE r.moved
             /\ other' = IF x = "other" THEN r.this ELSE r.moved
             /\ last' = Call("move_construct", "ok", Object(y).blockCount)
    /\ UNCHANGED <<blocks, batch, regions, query>>

\* x = std::move(y), for x and y two objects or one.
MoveAssign ==
    /\ Defined
    /\ \E x \in Objects, y \in Objects :
         LET r == move_assign(Object(x), Object(y), blocks, x = y)
         IN  /\ arena' = IF x = "arena" THEN r.this
                         ELSE IF y = "arena" THEN r.moved ELSE arena
             /\ other' = IF x = "other" THEN r.this
                         ELSE IF y = "other" THEN r.moved ELSE other
             /\ blocks' = r.h
             /\ last' = Call(IF x = y THEN "self_move_assign" ELSE "move_assign",
                             "ok", Object(x).blockCount)
    /\ UNCHANGED <<batch, regions, query>>

NextMove == Allocate \/ Release \/ MoveConstruct \/ MoveAssign

SpecMove == Init /\ [][NextMove]_vars

\* isAligned: return address & (alignment - 1), converted to bool (nonzero is true).
isAligned(ptr, alignment) == BitAnd(ptr, Sub(alignment, 1)) # 0

\* The powers of two a size_t holds.
PowersOfTwo == {Pow2(k) : k \in 0..(WordBits - 1)}

\* A call of the alignment helpers on any address and any power of two.
InitAlign ==
    /\ arena = ArenaAllocator
    /\ blocks = <<>>
    /\ last = Call("construct", "ok", 0)
    /\ batch = NoBatch
    /\ other = ArenaAllocator
    /\ regions = <<>>
    /\ query \in {[NoQuery EXCEPT !.ptr = p, !.alignment = a] :
                     p \in 0..(Word - 1), a \in PowersOfTwo}

IsAligned ==
    /\ "isAligned" \notin query.asked
    /\ query' = [query EXCEPT !.asked = @ \cup {"isAligned"},
                              !.isAligned = isAligned(query.ptr, query.alignment)]
    /\ UNCHANGED <<arena, blocks, last, batch, other, regions>>

AlignUp ==
    /\ "align_up" \notin query.asked
    /\ query' = [query EXCEPT !.asked = @ \cup {"align_up"},
                              !.align_up = align_up(query.ptr, query.alignment)]
    /\ UNCHANGED <<arena, blocks, last, batch, other, regions>>

NextAlign == IsAligned \/ AlignUp

SpecAlign == InitAlign /\ [][NextAlign]_vars

\* The alignments a caller may pass: the powers of two.
Lawful == {a \in Alignments : a # 0 /\ ~BadAlignment(a)}

\* A caller that keeps what allocate returns: the address, the size it asked for
\* and the block the address was carved from, in call order.
AllocateRegion ==
    \E size \in 1..MaxSize, alignment \in Lawful :
      \E r1 \in Answers1(St(arena, blocks), size, alignment) :
      \E r2 \in Answers2(St(arena, blocks), size, alignment, r1) :
        LET r == allocate(St(arena, blocks), size, alignment, r1, r2)
        IN  /\ r.outcome = "ok" => Len(regions) < MaxRegions
            /\ arena' = r.a
            /\ blocks' = r.h
            /\ last' = Call("allocate", r.outcome, arena.blockCount)
            /\ regions' = IF r.outcome = "ok"
                          THEN Append(regions, [ptr |-> r.ptr, size |-> size, blk |-> r.blk])
                          ELSE regions
            /\ UNCHANGED <<batch, other, query>>

\* reset() and release() end the life of every address returned before.
ResetRegions ==
    LET r == reset(St(arena, blocks))
    IN  /\ arena' = r.a
        /\ blocks' = r.h
        /\ last' = Call("reset", "ok", arena.blockCount)
        /\ regions' = <<>>
        /\ UNCHANGED <<batch, other, query>>

ReleaseRegions ==
    LET r == release(St(arena, blocks))
    IN  /\ arena' = r.a
        /\ blocks' = r.h
        /\ last' = Call("release", "ok", arena.blockCount)
        /\ regions' = <<>>
        /\ UNCHANGED <<batch, other, query>>

NextRegions == AllocateRegion \/ ResetRegions \/ ReleaseRegions

SpecRegions == Init /\ [][NextRegions]_vars

\* The element types T the typed entry points are called with: sizeof(T), alignof(T).
Types == {[sizeof |-> 1, alignof |-> 1], [sizeof |-> 2, alignof |-> 2]}

\* The values of a size_t element count.
Counts == 0..(Word - 1)

\* size_t multiplication.
Mul(x, y) == (x * y) % Word

\* allocate_array<T>(count): allocate(sizeof(T) * count, alignof(T))
allocate_array(s, T, count, r1, r2) ==
    allocate(s, Mul(T.sizeof, count), T.alignof, r1, r2)

\* StlArenaAdapter<T>::allocate(n): arena.allocate(n * sizeof(T), alignof(T))
adapter_allocate(s, T, n, r1, r2) ==
    allocate(s, Mul(n, T.sizeof), T.alignof, r1, r2)

AllocateArray ==
    \E T \in Types, count \in Counts :
      \E r1 \in Answers1(St(arena, blocks), Mul(T.sizeof, count), T.alignof) :
      \E r2 \in Answers2(St(arena, blocks), Mul(T.sizeof, count), T.alignof, r1) :
        LET r == allocate_array(St(arena, blocks), T, count, r1, r2)
        IN  /\ arena' = r.a
            /\ blocks' = r.h
            /\ last' = Call("allocate_array", r.outcome, arena.blockCount)
            /\ UNCHANGED <<batch, other, regions, query>>

AdapterAllocate ==
    \E T \in Types, n \in Counts :
      \E r1 \in Answers1(St(arena, blocks), Mul(n, T.sizeof), T.alignof) :
      \E r2 \in Answers2(St(arena, blocks), Mul(n, T.sizeof), T.alignof, r1) :
        LET r == adapter_allocate(St(arena, blocks), T, n, r1, r2)
        IN  /\ arena' = r.a
            /\ blocks' = r.h
            /\ last' = Call("adapter_allocate", r.outcome, arena.blockCount)
            /\ UNCHANGED <<batch, other, regions, query>>

NextArray == AllocateArray \/ AdapterAllocate \/ Release

SpecArray == Init /\ [][NextArray]_vars

\* A benchmark scope: a fresh arena, a loop of allocations of one size and one
\* alignment (create<T> is allocate(sizeof(T), alignof(T))), left at the first
\* exception or after MaxBatch rounds.
BatchAllocate ==
    /\ last.outcome = "ok"
    /\ batch.n < MaxBatch
    /\ \E size \in 1..MaxSize, alignment \in {a \in Alignments : a # 0 /\ ~BadAlignment(a)} :
        \E r1 \in Answers1(St(arena, blocks), size, alignment) :
        \E r2 \in Answers2(St(arena, blocks), size, alignment, r1) :
          LET r == allocate(St(arena, blocks), size, alignment, r1, r2)
          IN  /\ batch.n > 0 => size = batch.size /\ alignment = batch.alignment
              /\ arena' = r.a
              /\ blocks' = r.h
              /\ last' = Call("allocate", r.outcome, arena.blockCount)
              /\ batch' = IF r.outcome = "ok"
                          THEN [n |-> batch.n + 1, size |-> size, alignment |-> alignment]
                          ELSE batch
              /\ UNCHANGED <<other, regions, query>>

\* The end of the scope destroys the arena (the destructor is release()); the
\* next scope constructs a new one.
BatchEnd ==
    LET r == release(St(arena, blocks))
    IN  /\ last.op # "release"
        /\ arena' = r.a
        /\ blocks' = r.h
        /\ last' = Call("release", "ok", arena.blockCount)
        /\ batch' = NoBatch
        /\ UNCHANGED <<other, regions, query>>

NextBatch == BatchAllocate \/ BatchEnd

SpecBatch == Init /\ [][NextBatch]_vars

\* ------------------------------------------------------------ vocabulary

\* The powers of two a machine word holds.
PowerOfTwo(a) == \E k \in 0..(WordBits - 1) : a = Pow2(k)

\* The blocks reachable from block by next links, at most fuel of them.
RECURSIVE Walk(_, _, _)
Walk(h, block, fuel) ==
    IF block = NULL \/ fuel = 0 \/ block \notin DOMAIN h THEN {}
    ELSE {block} \cup Walk(h, h[block].next, fuel - 1)

\* The chain of the arena: the blocks reachable from head.
ChainSet(a, h) == Walk(h, a.head, Cardinality(DOMAIN h))

\* The blocks from head up to current: the ones allocate has carved addresses
\* from since the arena was built, reset or released.
RECURSIVE WalkTo(_, _, _, _)
WalkTo(h, block, stop, fuel) ==
    IF block = NULL \/ fuel = 0 \/ block \notin DOMAIN h THEN {}
    ELSE IF block = stop THEN {block}
    ELSE {block} \cup WalkTo(h, h[block].next, stop, fuel - 1)

UpToCurrent(a, h) == WalkTo(h, a.head, a.current, Cardinality(DOMAIN h))

\* The program state now.
Now == St(arena, blocks)

\* The region [ptr, ptr + size) lies in the storage of block b of heap h.
Inside(h, b, ptr, size) ==
    h[b].data <= ptr /\ ptr + size <= h[b].data + h[b].size

\* P(size, alignment, r) holds of every allocate call possible now, r its result.
EveryAllocate(P(_, _, _)) ==
    \A size \in 0..MaxSize, alignment \in Alignments :
      \A r1 \in Answers1(Now, size, alignment) :
        \A r2 \in Answers2(Now, size, alignment, r1) :
          P(size, alignment, allocate(Now, size, alignment, r1, r2))

\* ------------------------------------------------------------------ claims

\* What C1 asks of one allocate call and its result r.
C1_Holds(size, alignment, r) ==
    (size > 0 /\ PowerOfTwo(alignment) /\ r.outcome = "ok") =>
        /\ r.ptr % alignment = 0
        /\ Cardinality({b \in ChainSet(r.a, r.h) : Inside(r.h, b, r.ptr, size)}) = 1

\* C1: every allocate(size, alignment) with size > 0 and alignment a power of
\* two that returns an address returns a multiple of alignment, and the region
\* [address, address + size) lies inside the storage of exactly one block of
\* the chain, wherever the system allocator placed that block.
C1_AlignedInsideOneBlock == EveryAllocate(C1_Holds)

\* What C2 asks of one allocate call and its result r.
C2_Holds(size, alignment, r) ==
    /\ \A b \in DOMAIN blocks :
          /\ b \in DOMAIN r.h
          /\ r.h[b].data = blocks[b].data
          /\ r.h[b].size = blocks[b].size
    /\ UpToCurrent(arena, blocks) \subseteq ChainSet(r.a, r.h)

\* C2: an allocate call never frees or moves a block that exists: every block of
\* the heap is still there after the call, at the same address and with the same
\* capacity, and the blocks from head up to current stay in the chain (growth
\* links the new block after current), so addresses returned earlier keep
\* pointing into live storage of the arena.
C2_AllocateKeepsBlocks == EveryAllocate(C2_Holds)

\* C2 witness: an allocate call has grown a chain that held a block already.
C2_Witness ==
    /\ last.op = "allocate" /\ last.outcome = "ok"
    /\ last.before >= 1 /\ arena.blockCount > last.before
    /\ Cardinality(ChainSet(arena, blocks)) >= 2

\* C3: an allocate or reset step never takes a block out of the chain: the
\* blocks reachable from head before the step are reachable from head after it
\* (stated of the calls whose behaviour is defined).
C3_AppendedStaysReachable ==
    [][(last'.op \in {"allocate", "reset"} /\ last'.outcome # "undefined") =>
        ChainSet(arena, blocks) \subseteq ChainSet(arena', blocks')]_vars

\* What C4 asks of one allocate call and its result r.
C4_Holds(size, alignment, r) ==
    (size > 0 /\ ~PowerOfTwo(alignment)) =>
        /\ r.outcome = "runtime_error"
        /\ r.a = arena
        /\ r.h = blocks

\* C4: allocate(size, alignment) with size > 0 and alignment not a power of two
\* (0, 3 and 6 included) throws the invalid-argument error and changes nothing.
C4_BadAlignmentRejected == EveryAllocate(C4_Holds)

\* What C5 asks of one allocate call and its result r.
C5_Holds(size, alignment, r) ==
    r.outcome = "bad_alloc" => (r.a = arena /\ r.h = blocks)

\* C5: an allocate call that ends with out-of-memory leaves the arena and every
\* block as they were before the call.
C5_OutOfMemoryChangesNothing == EveryAllocate(C5_Holds)

\* What C6 asks of one allocate call and its result r.
C6_Holds(size, alignment, r) ==
    (size = 0 /\ PowerOfTwo(alignment)) =>
        /\ r.outcome = "nullptr"
        /\ r.ptr = NULL
        /\ r.a = arena
        /\ r.h = blocks

\* C6: allocate(0, alignment) with a power-of-two alignment returns nullptr and
\* changes nothing, in every state, the empty arena included.
C6_ZeroSizeChangesNothing == EveryAllocate(C6_Holds)

\* C6 witness: allocate(0, .) has returned nullptr on an arena that holds blocks.
C6_Witness ==
    /\ last.op = "allocate" /\ last.outcome = "nullptr"
    /\ arena.blockCount >= 1 /\ arena.totalUsed >= 1

\* The replays C7 is stated of.
C7_Replayable(size, alignment) ==
    /\ Defined
    /\ arena.head # NULL
    /\ PowerOfTwo(alignment)
    /\ blocks[arena.head].data % alignment = 0
    /\ size <= blocks[arena.head].used
    /\ blocks[arena.head].used <= blocks[arena.head].size
    /\ size <= arena.totalUsed

\* C7: reset() followed by an allocate of no more bytes than were in use before
\* the reset is served from the blocks already reserved: block_count and
\* total_allocated are afterwards what they were before the reset. Stated of the
\* plainest replay: one request no larger than what the head block held, at an
\* alignment the head block's address has, so that it fits the emptied head.
C7_ReplayAfterResetReuses ==
    \A size \in 1..MaxSize, alignment \in Alignments :
      LET s0 == reset(Now)
      IN  \A r1 \in Answers1(s0, size, alignment) :
            \A r2 \in Answers2(s0, size, alignment, r1) :
              LET r == allocate(s0, size, alignment, r1, r2)
              IN  (C7_Replayable(size, alignment) /\ r.outcome = "ok") =>
                      /\ r.a.blockCount = arena.blockCount
                      /\ r.a.totalAllocated = arena.totalAllocated

\* C8: right after reset() on an arena with blocks, every block of the chain has
\* used offset 0, current is the head and total_used is 0.
C8_ResetZeroesEveryBlock ==
    (last.op = "reset" /\ arena.head # NULL) =>
        /\ \A b \in ChainSet(arena, blocks) : blocks[b].used = 0
        /\ arena.current = arena.head
        /\ arena.totalUsed = 0

\* C9: reset() changes no reserved capacity: block_count, total_allocated, the
\* blocks of the chain and of the heap, and every block's address and capacity
\* are after reset() what they were before, in every state.
C9_ResetKeepsCapacity ==
    LET r == reset(Now)
    IN  /\ r.a.blockCount = arena.blockCount
        /\ r.a.totalAllocated = arena.totalAllocated
        /\ r.a.head = arena.head
        /\ ChainSet(r.a, r.h) = ChainSet(arena, blocks)
        /\ DOMAIN r.h = DOMAIN blocks
        /\ \A b \in DOMAIN blocks :
              /\ r.h[b].data = blocks[b].data
              /\ r.h[b].size = blocks[b].size
              /\ r.h[b].next = blocks[b].next

\* C9 witness: reset() has run on a chain of two blocks or more.
C9_Witness ==
    /\ last.op = "reset" /\ last.before >= 2
    /\ Cardinality(ChainSet(arena, blocks)) >= 2

\* C10: release() leaves block_count, total_allocated and total_used 0 and head
\* and current null, that is the very state the constructor builds, with every
\* block of the chain deleted: what follows runs as on a new arena.
C10_ReleaseGivesFreshArena ==
    LET r == release(Now)
    IN  /\ r.a.blockCount = 0 /\ r.a.totalAllocated = 0 /\ r.a.totalUsed = 0
        /\ r.a.head = NULL /\ r.a.current = NULL
        /\ r.a = ArenaAllocator
        /\ ChainSet(r.a, r.h) = {}
        /\ DOMAIN r.h = DOMAIN blocks \ ChainSet(arena, blocks)
        /\ (last.op = "release" => arena = ArenaAllocator)

\* C10 witness: release() has run on an arena that held blocks and bytes in use.
C10_Witness ==
    /\ last.op = "release" /\ last.before >= 2
    /\ arena = ArenaAllocator

\* C11: release() is idempotent: a released arena points at no block, so there is
\* nothing a second release() could free, a second release() changes neither the
\* arena nor the heap, and release() on an arena without blocks (never used, or
\* released) is a no-op.
C11_ReleaseIdempotent ==
    LET r1 == release(Now)
    IN  /\ r1.a.head = NULL /\ r1.a.current = NULL
        /\ release(r1) = r1
        /\ (arena.head = NULL => release(Now) = Now)

\* C11 witness: release() has run on an arena that had no block, and the arena is
\* in the state the constructor leaves.
C11_Witness ==
    /\ last.op = "release" /\ last.before = 0
    /\ arena = ArenaAllocator

\* C12: when release() returns, no block this arena created is still allocated.
C12_ReleaseFreesEveryBlock ==
    last.op = "release" => DOMAIN blocks = {}

\* What C14 asks of one allocate call on an arena without blocks.
C14_Holds(size, alignment, r) ==
    (arena.head = NULL /\ size > DefaultBlockSize /\ PowerOfTwo(alignment)
        /\ r.outcome = "ok") =>
        /\ r.a.blockCount = 1
        /\ Cardinality(ChainSet(r.a, r.h)) = 1
        /\ r.h[r.a.head].size >= size
        /\ r.ptr % alignment = 0

\* C14: on an arena without blocks one allocate(size, alignment) with size above
\* the default block size creates exactly one block, of capacity at least size,
\* and returns an aligned address.
C14_LargeFirstRequestOneBlock == EveryAllocate(C14_Holds)

\* C16: in every state reached by defined calls, every block of the heap has
\* used <= size, a growth block whose first request needed padding included.
C16_UsedWithinCapacity ==
    Defined => \A b \in DOMAIN blocks : blocks[b].used <= blocks[b].size

\* C17: in every state reached by defined calls, total_used <= total_allocated.
C17_UsedWithinAllocated ==
    Defined => arena.totalUsed <= arena.totalAllocated

\* C18: current is null exactly when head is null, and in an arena with blocks
\* current is the tail of the chain (its next is null), after reset() too.
C18_CurrentIsTail ==
    Defined =>
        /\ (arena.current = NULL) <=> (arena.head = NULL)
        /\ arena.head # NULL =>
              /\ arena.current \in ChainSet(arena, blocks)
              /\ blocks[arena.current].next = NULL

\* What C19 asks of one allocate call on an arena whose current block is sound
\* (used <= size): a request that fits is carved from current and adds no block;
\* a call that adds a block makes it current, with capacity max(size, default).
C19_Holds(size, alignment, r) ==
    (arena.current # NULL /\ size > 0 /\ PowerOfTwo(alignment) /\ r.outcome = "ok"
        /\ blocks[arena.current].used <= blocks[arena.current].size) =>
        LET cur == blocks[arena.current]
            padding == align_up(current(cur), alignment) - current(cur)
        IN  /\ (padding >= 0 /\ size + padding <= cur.size - cur.used) =>
                  /\ r.a.blockCount = arena.blockCount
                  /\ r.a.totalAllocated = arena.totalAllocated
                  /\ r.a.current = arena.current
                  /\ Inside(r.h, arena.current, r.ptr, size)
            /\ r.a.blockCount > arena.blockCount =>
                  /\ r.a.current \notin DOMAIN blocks
                  /\ r.h[r.a.current].size = Max(size, DefaultBlockSize)

\* C19: allocate adds a block only when the request does not fit the current
\* block: a request with size + padding <= capacity - used is carved from the
\* current block and leaves block_count and total_allocated as they were; a block
\* that is added has capacity max(size, default) and becomes current.
C19_GrowsOnlyWhenFull == Defined => EveryAllocate(C19_Holds)

\* C15: n allocations of s bytes with alignment a on a fresh arena, where s is a
\* multiple of a, s divides the default block size and every block starts at a
\* multiple of a, leave total_used = n * s and
\* block_count = ceil(n * s / default block size).
C15_BatchCounts ==
    (/\ batch.n > 0
     /\ batch.size % batch.alignment = 0
     /\ DefaultBlockSize % batch.size = 0
     /\ \A b \in DOMAIN blocks : blocks[b].data % batch.alignment = 0) =>
        /\ arena.totalUsed = batch.n * batch.size
        /\ arena.blockCount =
              (batch.n * batch.size + DefaultBlockSize - 1) \div DefaultBlockSize

\* What C20 asks of a typed call for count elements of type T with result r: an
\* address that is returned starts a region of count * sizeof(T) bytes (the
\* product as a number, not as a size_t) inside one block of the chain.
C20_Holds(T, count, r) ==
    r.outcome = "ok" =>
        \E b \in ChainSet(r.a, r.h) : Inside(r.h, b, r.ptr, T.sizeof * count)

\* C20: allocate_array<T>(count) and the adapter's allocate(n) never return an
\* address whose region inside its block is smaller than count * sizeof(T)
\* bytes, for every count, the counts whose byte size wraps modulo 2^w included.
C20_ArrayHoldsCount ==
    \A T \in Types, count \in Counts :
      \A r1 \in Answers1(Now, Mul(T.sizeof, count), T.alignof) :
        \A r2 \in Answers2(Now, Mul(T.sizeof, count), T.alignof, r1) :
          /\ C20_Holds(T, count, allocate_array(Now, T, count, r1, r2))
          /\ C20_Holds(T, count, adapter_allocate(Now, T, count, r1, r2))

\* What C13 asks of a move from the object moved into this, with r the objects
\* and the heap after it and freed the blocks the move is to free: this has the
\* five fields and the chain that moved had, the blocks of that chain untouched;
\* moved is empty; exactly the blocks of freed have left the heap; and a block
\* that one of the two chains held is afterwards in the heap and in the chain of
\* this, or in neither.
C13_Holds(this, moved, r, freed) ==
    /\ r.this = moved
    /\ r.moved = ArenaAllocator
    /\ ChainSet(r.this, r.h) = ChainSet(moved, blocks)
    /\ \A b \in ChainSet(moved, blocks) : r.h[b] = blocks[b]
    /\ ChainSet(r.moved, r.h) = {}
    /\ DOMAIN r.h = DOMAIN blocks \ freed
    /\ \A b \in ChainSet(this, blocks) \cup ChainSet(moved, blocks) :
          (b \in DOMAIN r.h) <=> (b \in ChainSet(r.this, r.h))

\* C13: a move construction gives the new arena the chain, current block and
\* counters the source had and empties the source, freeing nothing; a move
\* assignment between two arenas does the same and frees every block of the
\* chain the destination had; afterwards every block of the two chains is owned
\* by the destination alone or is freed; a self move-assignment changes nothing.
C13_MoveTransfersOwnership ==
    Defined =>
      \A x \in Objects, y \in Objects :
        IF x = y
        THEN LET r == move_assign(Object(x), Object(x), blocks, TRUE)
             IN  r.this = Object(x) /\ r.h = blocks
        ELSE /\ LET r == move_assign(Object(x), Object(y), blocks, FALSE)
                IN  C13_Holds(Object(x), Object(y), r, ChainSet(Object(x), blocks))
             /\ LET r == move_construct(Object(y))
                IN  C13_Holds(ArenaAllocator, Object(y),
                              [this |-> r.this, moved |-> r.moved, h |-> blocks], {})

\* C13 witness: a move assignment has run whose destination had blocks, and the
\* destination now holds the chain of a source that had blocks too.
C13_Witness ==
    /\ last.op = "move_assign" /\ last.before >= 1
    /\ \E x \in Objects, y \in Objects :
          /\ x # y
          /\ Object(y) = ArenaAllocator
          /\ Cardinality(ChainSet(Object(x), blocks)) >= 1
          /\ Object(x).blockCount >= 1

\* The sum of the capacities, and of the used offsets, of the blocks S of heap h.
RECURSIVE SumSize(_, _)
SumSize(h, S) ==
    IF S = {} THEN 0
    ELSE LET b == CHOOSE x \in S : TRUE IN h[b].size + SumSize(h, S \ {b})

RECURSIVE SumUsed(_, _)
SumUsed(h, S) ==
    IF S = {} THEN 0
    ELSE LET b == CHOOSE x \in S : TRUE IN h[b].used + SumUsed(h, S \ {b})

\* C22: in every state reached by defined calls, block_count is the number of
\* blocks reachable from head and total_allocated is the sum of their capacities.
C22_CountersMatchChain ==
    Defined =>
        /\ arena.blockCount = Cardinality(ChainSet(arena, blocks))
        /\ arena.totalAllocated = SumSize(blocks, ChainSet(arena, blocks))

\* What C23 asks of one allocate call and its result r: the used offset of the
\* block the address was carved from and total_used have both grown by size plus
\* padding, where padding is the distance from the block's bump pointer to the
\* address returned and is less than alignment.
C23_Holds(size, alignment, r) ==
    (size > 0 /\ PowerOfTwo(alignment) /\ r.outcome = "ok") =>
        LET usedBefore == IF r.blk \in DOMAIN blocks THEN blocks[r.blk].used ELSE 0
            padding == r.ptr - (r.h[r.blk].data + usedBefore)
        IN  /\ 0 <= padding /\ padding < alignment
            /\ r.h[r.blk].used = usedBefore + size + padding
            /\ r.a.totalUsed = arena.totalUsed + size + padding

\* C23: in every state reached by defined calls, total_used is the sum of the
\* used offsets of the blocks of the chain, and every allocate call that returns
\* an address raises the used offset of its block and total_used by size plus
\* padding, with padding less than alignment.
C23_UsedMatchesChain ==
    Defined =>
        /\ arena.totalUsed = SumUsed(blocks, ChainSet(arena, blocks))
        /\ EveryAllocate(C23_Holds)

\* C21: the regions [address, address + size) allocate has returned since the
\* last reset or release (or since construction) are pairwise disjoint, and two
\* of them carved from one block are at strictly increasing addresses in call
\* order.
C21_RegionsDisjoint ==
    \A i \in 1..Len(regions), j \in 1..Len(regions) :
      i < j =>
        /\ \/ regions[i].ptr + regions[i].size <= regions[j].ptr
           \/ regions[j].ptr + regions[j].size <= regions[i].ptr
        /\ regions[i].blk = regions[j].blk => regions[i].ptr < regions[j].ptr

\* C24: for every address and every power-of-two alignment, isAligned answers
\* true exactly when the address is a multiple of the alignment, and exactly
\* when align_up returns the address unchanged.
C24_IsAlignedIsMultiple ==
    query.asked = {"isAligned", "align_up"} =>
        /\ query.isAligned <=> (query.ptr % query.alignment = 0)
        /\ query.isAligned <=> (query.align_up = query.ptr)

====
